---- MODULE Spec2Model ----
(***************************************************************************)
(* A model of shell.c: the read-eval loop (readCommand), the dispatcher    *)
(* (programCall, callHist), the history ring (recHistory, history) and the *)
(* process runner (foreground, background, handler).                       *)
(*                                                                         *)
(* Text is a sequence of one-character strings, so that tokenizing, atoi   *)
(* and strtok are computed on the characters.                              *)
(*                                                                         *)
(* signal() is taken with the BSD semantics glibc gives it by default: the *)
(* handler stays installed, SIGCHLD is blocked while the handler runs, and *)
(* interrupted system calls are restarted.                                 *)
(***************************************************************************)
EXTENDS Integers, Sequences, FiniteSets, Bags, TLC

ringSize == 10

\* Lines are typed only while fewer than MaxRecorded commands were recorded.
MaxRecorded == 12
\* fork succeeds only while fewer than MaxFork children were created.
MaxFork == 2

VARIABLES
  ringBuffer,        \* slot -> [command, commandID]
  ringStart,         \* index of the newest element
  ringEnd,           \* index of the oldest element
  ringCount,         \* number of elements
  cmdID,             \* next command identifier
  cmdLine,           \* readCommand's line buffer (<<>> : nothing was stored in it yet)
  eof,               \* stdin's end-of-file indicator
  pc,                \* "read" | "fgwait" | "done" (readCommand returned) | "forkfail" (exit(-1))
  callIdx,           \* programCall's cmdLine: -1 = readCommand's buffer, else the ring slot it points into
  children,          \* bag of [argv, cmdLine, bg, st, out] : the shell's unreaped children
  handlerInstalled,  \* signal(SIGCHLD, handler) was called
  sigPending,        \* a SIGCHLD is pending
  hpc,               \* handler: "idle" | "blocked" (inside waitpid(-1, NULL, 0))
  out,               \* what the shell printed since the last line was read
  forked,            \* number of children created so far
  recorded           \* history variable: the texts passed to recHistory, in order

histVars == <<ringBuffer, ringStart, ringEnd, ringCount, cmdID>>
procVars == <<children, handlerInstalled, sigPending, hpc, forked>>
vars == <<ringBuffer, ringStart, ringEnd, ringCount, cmdID, cmdLine, eof, pc, callIdx,
          children, handlerInstalled, sigPending, hpc, out, forked, recorded>>

----------------------------------------------------------------------------
(* Text *)

NL == "\n"
histText == <<"h", "i", "s", "t", "o", "r", "y">>
exitText == <<"e", "x", "i", "t">>
fgText == <<"l", "s">>
bgText == <<"l", "s", " ", "&">>
badRecallText == <<"!", "a", "b", "c">>
bangText == <<"!">>
spaceText == <<" ", "\t">>
\* "exit" followed by a space is not the line "exit": it is a command, and no
\* program of that name is on the search path.
nfText == <<"e", "x", "i", "t", " ">>
nfBgText == <<"x", "x", " ", "&">>

Digits == <<"0", "1", "2", "3", "4", "5", "6", "7", "8", "9">>
IsDigit(c) == \E d \in 1..10 : Digits[d] = c
DigitVal(c) == (CHOOSE d \in 1..10 : Digits[d] = c) - 1
IsSpace(c) == c \in {" ", "\t", NL}

RECURSIVE Itoa(_)
Itoa(n) ==
  IF n < 0 THEN <<"-">> \o Itoa(-n)
  ELSE IF n < 10 THEN <<Digits[n + 1]>>
  ELSE Itoa(n \div 10) \o <<Digits[(n % 10) + 1]>>

RECURSIVE AtoiDigits(_, _)
AtoiDigits(s, acc) ==
  IF s = <<>> \/ ~IsDigit(Head(s)) THEN acc
  ELSE AtoiDigits(Tail(s), acc * 10 + DigitVal(Head(s)))

RECURSIVE SkipSpace(_)
SkipSpace(s) == IF s # <<>> /\ IsSpace(Head(s)) THEN SkipSpace(Tail(s)) ELSE s

\* atoi reading a number only from a string that is a number to its end
atoi_whole(s) ==
  LET t == SkipSpace(s)
      u == IF t # <<>> /\ Head(t) \in {"-", "+"} THEN Tail(t) ELSE t
  IN IF u # <<>> /\ \A i \in 1..Len(u) : IsDigit(u[i])
     THEN (IF t # <<>> /\ Head(t) = "-" THEN 0 - AtoiDigits(u, 0) ELSE AtoiDigits(u, 0))
     ELSE 0 - 1
\* atoi(3): optional white space, optional sign, the leading digits; 0 without digits.
atoi(s) ==
  LET t == SkipSpace(s) IN
    IF t # <<>> /\ Head(t) = "-" THEN 0 - AtoiDigits(Tail(t), 0)
    ELSE IF t # <<>> /\ Head(t) = "+" THEN AtoiDigits(Tail(t), 0)
    ELSE AtoiDigits(t, 0)

\* strtok(cmdLine, "\n") as cmdPrologue uses it: the buffer is cut at the first
\* newline that follows a character other than newline; a buffer of newlines
\* only holds no token and is left as it is.
strtok(buf) ==
  LET nonNL == {i \in 1..Len(buf) : buf[i] # NL} IN
    IF nonNL = {} THEN buf
    ELSE LET first == CHOOSE i \in nonNL : \A j \in nonNL : i <= j
             ends == {j \in first..Len(buf) : buf[j] = NL}
         IN IF ends = {} THEN buf
            ELSE SubSeq(buf, 1, (CHOOSE j \in ends : \A k \in ends : j <= k) - 1)

\* fgets(cmdLine, maxLen + 1, stdin) on a typed line shorter than maxLen.
fgets(typed) == typed \o <<NL>>

RECURSIVE Split(_, _, _)
Split(s, cur, acc) ==
  IF s = <<>> THEN (IF cur = <<>> THEN acc ELSE Append(acc, cur))
  ELSE IF IsSpace(Head(s))
       THEN Split(Tail(s), <<>>, IF cur = <<>> THEN acc ELSE Append(acc, cur))
       ELSE Split(Tail(s), Append(cur, Head(s)), acc)

\* The tokenizer: tokens split on white space, a trailing "&" token is
\* stripped and sets the background flag.
parseCommand(line) ==
  LET toks == Split(line, <<>>, <<>>) IN
    IF toks # <<>> /\ toks[Len(toks)] = <<"&">>
    THEN [argv |-> SubSeq(toks, 1, Len(toks) - 1), bg |-> 1]
    ELSE [argv |-> toks, bg |-> 0]

\* printf(fmt, args...) followed by fflush(stdout)
Printf(fmt, args) == [fmt |-> fmt, args |-> args]
PromptOut == Printf("rashell> ", <<>>)

----------------------------------------------------------------------------
(* The history ring *)

Slots == 0..(ringSize - 1)
EmptyEntry == [command |-> <<>>, commandID |-> 0]

\* the five globals as one value
H == [ringBuffer |-> ringBuffer, ringStart |-> ringStart, ringEnd |-> ringEnd,
      ringCount |-> ringCount, cmdID |-> cmdID]

\* indexer wrapping to the second slot
indexer_wrapsToOne(index) ==
  LET temp == index + 1 IN IF temp >= ringSize THEN 1 ELSE temp
indexer(index) ==
  LET temp == index + 1 IN IF temp >= ringSize THEN 0 ELSE temp

\* recHistory giving a full ring's new entry the identifier of the entry it
\* replaces
recHistory_reusesId(h, text) ==
  LET s == indexer(h.ringStart) IN
    IF h.ringCount < ringSize
    THEN [ringBuffer |-> [h.ringBuffer EXCEPT ![s] = [command |-> text, commandID |-> h.cmdID]],
          ringStart |-> s,
          ringEnd |-> h.ringEnd,
          ringCount |-> h.ringCount + 1,
          cmdID |-> h.cmdID + 1]
    ELSE [ringBuffer |-> [h.ringBuffer EXCEPT ![s] = [command |-> text,
                                                     commandID |-> h.ringBuffer[s].commandID]],
          ringStart |-> s,
          ringEnd |-> indexer(h.ringEnd),
          ringCount |-> h.ringCount,
          cmdID |-> h.cmdID]
\* recHistory with a full ring's oldest index left where it is
recHistory_noEvict(h, text) ==
  LET s == indexer(h.ringStart) IN
    [ringBuffer |-> [h.ringBuffer EXCEPT ![s] = [command |-> text, commandID |-> h.cmdID]],
     ringStart |-> s,
     ringEnd |-> h.ringEnd,
     ringCount |-> IF h.ringCount < ringSize THEN h.ringCount + 1 ELSE h.ringCount,
     cmdID |-> h.cmdID + 1]

\* recHistory with the inner test reached one insertion before the ring is full
recHistory_doubleCount(h, text) ==
  LET s == indexer(h.ringStart)
      c == IF h.ringCount = ringSize - 1 THEN h.ringCount + 1 ELSE h.ringCount
  IN [ringBuffer |-> [h.ringBuffer EXCEPT ![s] = [command |-> text, commandID |-> h.cmdID]],
      ringStart |-> s,
      ringEnd |-> IF h.ringCount < ringSize THEN h.ringEnd ELSE indexer(h.ringEnd),
      ringCount |-> IF h.ringCount < ringSize THEN c + 1 ELSE h.ringCount,
      cmdID |-> h.cmdID + 1]

recHistory(h, text) ==
  IF h.ringCount < ringSize
  THEN LET s == indexer(h.ringStart)
           c == IF h.ringCount = ringSize THEN h.ringCount + 1 ELSE h.ringCount
       IN [ringBuffer |-> [h.ringBuffer EXCEPT ![s] = [command |-> text, commandID |-> h.cmdID]],
           ringStart |-> s,
           ringEnd |-> h.ringEnd,
           ringCount |-> c + 1,
           cmdID |-> h.cmdID + 1]
  ELSE LET s == indexer(h.ringStart)
       IN [ringBuffer |-> [h.ringBuffer EXCEPT ![s] = [command |-> text, commandID |-> h.cmdID]],
           ringStart |-> s,
           ringEnd |-> indexer(h.ringEnd),
           ringCount |-> h.ringCount,
           cmdID |-> h.cmdID + 1]

\* history's loop after recording: starting with index = ringEnd and i = 0,
\* one printed line per slot while i < ringCount.
RECURSIVE ListFrom(_, _, _)
ListFrom(h, index, i) ==
  IF i < h.ringCount
  THEN <<Printf("       %d %s\n", <<h.ringBuffer[index].commandID, h.ringBuffer[index].command>>)>>
         \o ListFrom(h, indexer(index), i + 1)
  ELSE <<>>
\* the listing started at the newest entry
Listing_fromStart(h) == ListFrom(h, IF h.ringStart < 0 THEN 0 ELSE h.ringStart, 0)
Listing(h) == ListFrom(h, h.ringEnd, 0)

\* callHist's loop: the first slot from ringEnd, among ringCount slots, whose
\* commandID equals the identifier, or -1. The comparison is unsigned: a
\* negative identifier converts to a value of at least 2^31, which no
\* commandID within the bounds of this model equals.
IdMatches(commandID, id) == id >= 0 /\ commandID = id
RECURSIVE FindFrom(_, _, _, _)
FindFrom(h, index, i, id) ==
  IF i < h.ringCount
  THEN IF IdMatches(h.ringBuffer[index].commandID, id) THEN index
       ELSE FindFrom(h, indexer(index), i + 1, id)
  ELSE 0 - 1
\* the search started at the newest entry
FindSlot_fromStart(h, id) == FindFrom(h, IF h.ringStart < 0 THEN 0 ELSE h.ringStart, 0, id)
FindSlot(h, id) == FindFrom(h, h.ringEnd, 0, id)

----------------------------------------------------------------------------
(* Processes *)

\* A child right after fork: its copy of cmdParsed and of the text cmdLine
\* points to, its mode, and what it has printed.
Child(argv, text, bg) ==
  [argv |-> argv, cmdLine |-> text, bg |-> bg, st |-> "running", out |-> <<>>]
\* The programs execvp finds on the search path.
Programs == {<<"l", "s">>}
\* the child's message naming the program instead of the line
execvp_namesProgram(c) ==
  IF c.argv[1] \in Programs THEN <<>>
  ELSE <<Printf("%s: command not found\n", <<c.argv[1]>>)>>
\* What the child itself prints: nothing when execvp replaced it by the
\* program, the message (and then exit(0)) when execvp failed.
execvp(c) ==
  IF c.argv[1] \in Programs THEN <<>>
  ELSE <<Printf("%s: command not found\n", <<c.cmdLine>>)>>
Terminated(c, printed) == [c EXCEPT !.st = "zombie", !.out = printed]
Zombies == {c \in BagToSet(children) : c.st = "zombie"}
Running == {c \in BagToSet(children) : c.st = "running"}
FgChildren == {c \in BagToSet(children) : c.bg = 0}
Alive == pc \in {"read", "fgwait"}

\* fork() succeeds (within the bounds of the model)
CanFork == forked < MaxFork

SetHist(h) ==
  /\ ringBuffer' = h.ringBuffer
  /\ ringStart' = h.ringStart
  /\ ringEnd' = h.ringEnd
  /\ ringCount' = h.ringCount
  /\ cmdID' = h.cmdID

\* programCall's recHistory(cmdLine) after foreground or background returned,
\* then the return to readCommand and its cmdPrologue. text is what cmdLine
\* points to. When cmdLine points into the ring (callHist), recHistory's
\* strcpy reads it from the ring; when it points into the very slot that is
\* written (the replayed entry is the oldest of a full ring), source and
\* destination of the strcpy are the same bytes, every byte written is the
\* byte read at that address, and the text stays what it was.
RecordAndPrompt(text) ==
  LET h == recHistory(H, text) IN
    /\ SetHist(h)
    /\ recorded' = Append(recorded, text)
    /\ out' = <<PromptOut>>
    /\ pc' = "read"

\* history printing the ring before it records
history_listFirst(text) ==
  LET h == recHistory(H, text) IN
    /\ SetHist(h)
    /\ recorded' = Append(recorded, text)
    /\ out' = Listing(H) \o <<PromptOut>>
    /\ pc' = "read"
    /\ UNCHANGED <<procVars, callIdx>>

\* history(cmdLine): record, then print the ring; then the return to
\* readCommand and its cmdPrologue.
history(text) ==
  LET h == recHistory(H, text) IN
    /\ SetHist(h)
    /\ recorded' = Append(recorded, text)
    /\ out' = Listing(h) \o <<PromptOut>>
    /\ pc' = "read"
    /\ UNCHANGED <<procVars, callIdx>>

\* a fork failure that is reported, after which the command is recorded and
\* the loop goes on
ForkFails_goesOn ==
  LET text == IF callIdx = -1 THEN cmdLine' ELSE ringBuffer[callIdx].command
      h == recHistory(H, text)
  IN /\ SetHist(h)
     /\ recorded' = Append(recorded, text)
     /\ out' = <<Printf("error in forking\n", <<>>), PromptOut>>
     /\ pc' = "read"
     /\ UNCHANGED <<callIdx, children, sigPending, hpc, forked>>
ForkFails ==
  /\ out' = <<Printf("error in forking\n", <<>>)>>
  /\ pc' = "forkfail"
  /\ UNCHANGED <<histVars, recorded, callIdx, children, sigPending, hpc, forked>>

foreground(argv, text, idx) ==
  \/ ForkFails /\ UNCHANGED handlerInstalled
  \/ /\ CanFork
     /\ children' = children (+) SetToBag({Child(argv, text, 0)})
     /\ forked' = forked + 1
     /\ pc' = "fgwait"
     /\ callIdx' = idx
     /\ out' = <<>>
     /\ UNCHANGED <<histVars, recorded, handlerInstalled, sigPending, hpc>>

\* background waiting for its child as foreground does
background_waits(argv, text) ==
  /\ handlerInstalled' = TRUE
  /\ \/ ForkFails
     \/ /\ CanFork
        /\ children' = children (+) SetToBag({Child(argv, text, 0)})
        /\ forked' = forked + 1
        /\ pc' = "fgwait"
        /\ out' = <<>>
        /\ UNCHANGED <<histVars, recorded, callIdx, sigPending, hpc>>
background(argv, text) ==
  /\ handlerInstalled' = TRUE
  /\ \/ ForkFails
     \/ /\ CanFork
        /\ children' = children (+) SetToBag({Child(argv, text, 1)})
        /\ forked' = forked + 1
        /\ RecordAndPrompt(text)
        /\ UNCHANGED <<callIdx, sigPending, hpc>>

programCall(cmdParsed, text, idx, bg) ==
  IF text = histText THEN history(text)
  ELSE IF bg = 0 THEN foreground(cmdParsed, text, idx)
  ELSE background(cmdParsed, text)

\* callHist handing the typed line, not the stored command, to programCall
callHist_recordsLine(id, line) ==
  LET index == FindSlot(H, id) IN
    IF index # -1
    THEN LET p == parseCommand(ringBuffer[index].command)
         IN programCall(p.argv, line, 0 - 1, p.bg)
    ELSE /\ out' = <<Printf("%s: event not found\n", <<line>>), PromptOut>>
         /\ pc' = "read"
         /\ UNCHANGED <<histVars, recorded, procVars, callIdx>>

\* callHist recording the line of a recall that found nothing
callHist_missRecords(id, line) ==
  LET index == FindSlot(H, id) IN
    IF index # -1
    THEN LET stored == ringBuffer[index].command
             p == parseCommand(stored)
         IN programCall(p.argv, stored, index, p.bg)
    ELSE LET h == recHistory(H, line) IN
         /\ SetHist(h)
         /\ recorded' = Append(recorded, line)
         /\ out' = <<Printf("%s: event not found\n", <<line>>), PromptOut>>
         /\ pc' = "read"
         /\ UNCHANGED <<procVars, callIdx>>

callHist(id, line) ==
  LET index == FindSlot(H, id) IN
    IF index # -1
    THEN LET stored == ringBuffer[index].command
             p == parseCommand(stored)
         IN programCall(p.argv, stored, index, p.bg)
    ELSE /\ out' = <<Printf("%s: event not found\n", <<line>>), PromptOut>>
         /\ pc' = "read"
         /\ UNCHANGED <<histVars, recorded, procVars, callIdx>>

\* readCommand recording the line "exit" before it returns
readCommand_recordsExit(line) ==
  IF line = exitText
  THEN LET h == recHistory(H, line) IN
       /\ SetHist(h)
       /\ recorded' = Append(recorded, line)
       /\ pc' = "done"
       /\ out' = <<>>
       /\ UNCHANGED <<procVars, callIdx>>
  ELSE IF line = histText THEN history(line)
  ELSE LET p == parseCommand(line) IN
    IF p.argv = <<>>
    THEN /\ out' = <<PromptOut>>
         /\ pc' = "read"
         /\ UNCHANGED <<histVars, recorded, procVars, callIdx>>
    ELSE IF Head(p.argv[1]) = "!"
    THEN callHist(atoi(Tail(p.argv[1])), line)
    ELSE programCall(p.argv, line, -1, p.bg)
\* readCommand without the test for "!": every line with a token is a command
readCommand_runsRecall(line) ==
  IF line = exitText
  THEN /\ pc' = "done"
       /\ out' = <<>>
       /\ UNCHANGED <<histVars, recorded, procVars, callIdx>>
  ELSE IF line = histText THEN history(line)
  ELSE LET p == parseCommand(line) IN
    IF p.argv = <<>>
    THEN /\ out' = <<PromptOut>>
         /\ pc' = "read"
         /\ UNCHANGED <<histVars, recorded, procVars, callIdx>>
    ELSE programCall(p.argv, line, -1, p.bg)
\* One pass of readCommand's loop with the line buffer holding line, up to the
\* next blocking call.
readCommand(line) ==
  IF line = exitText
  THEN /\ pc' = "done"
       /\ out' = <<>>
       /\ UNCHANGED <<histVars, recorded, procVars, callIdx>>
  ELSE IF line = histText THEN history(line)
  ELSE LET p == parseCommand(line) IN
    IF p.argv = <<>>
    THEN /\ out' = <<PromptOut>>
         /\ pc' = "read"
         /\ UNCHANGED <<histVars, recorded, procVars, callIdx>>
    ELSE IF Head(p.argv[1]) = "!"
    THEN callHist(atoi(Tail(p.argv[1])), line)
    ELSE programCall(p.argv, line, -1, p.bg)

\* cmdPrologue's fgets and strtok
cmdPrologue(typed) == strtok(fgets(typed))

----------------------------------------------------------------------------
(* Inputs *)

\* The identifiers typed after "!": the one not yet assigned, the newest, the
\* oldest held and the one before it (evicted; 0 and -1 while nothing was evicted).
RecallIds ==
  {cmdID, cmdID - 1, ringBuffer[ringEnd].commandID, ringBuffer[ringEnd].commandID - 1}
\* What readCommand's buffer holds before anything was stored in it: the
\* bytes the start-up code left on the stack, an empty string or bytes that
\* are no line of the shell's.
garbageText == <<"?">>
Indeterminate == {<<>>, garbageText}

TypedLines ==
  {histText, exitText, fgText, bgText, <<>>, badRecallText}
    \cup {<<"!">> \o Itoa(n) : n \in RecallIds}

\* Recalls that are not "!" and a number: no number, letters, a number and
\* letters (the number of the oldest entry held; 0 while the ring is empty).
RecallLines ==
  {histText, fgText, bgText, badRecallText, bangText,
   <<"!">> \o Itoa(ringBuffer[ringEnd].commandID) \o Tail(badRecallText)}

\* Commands naming a program that is not on the search path, and their replay.
ExecLines ==
  {histText, exitText, nfText, nfBgText, <<"!">> \o Itoa(cmdID - 1)}

\* The lines typed before the input ends.
EOFLines ==
  {histText, exitText, fgText, bgText, <<>>, spaceText,
   <<"!">> \o Itoa(cmdID - 1), <<"!">> \o Itoa(cmdID)}

----------------------------------------------------------------------------
(* Actions *)

Init ==
  /\ ringBuffer = [i \in Slots |-> EmptyEntry]
  /\ ringStart = 0 - 1
  /\ ringEnd = 0
  /\ ringCount = 0
  /\ cmdID = 1
  /\ cmdLine = <<>>
  /\ eof = FALSE
  /\ pc = "read"
  /\ callIdx = 0 - 1
  /\ children = EmptyBag
  /\ handlerInstalled = FALSE
  /\ sigPending = FALSE
  /\ hpc = "idle"
  /\ out = <<PromptOut>>
  /\ forked = 0
  /\ recorded = <<>>

\* fgets returns with a typed line; the loop runs up to its next blocking call.
\* A pending SIGCHLD is delivered before fgets returns to readCommand.
ReadLine(typed) ==
  /\ pc = "read"
  /\ hpc = "idle"
  /\ ~sigPending
  /\ cmdID <= MaxRecorded
  /\ ~eof
  /\ cmdLine' = cmdPrologue(typed)
  /\ readCommand(cmdLine')
  /\ UNCHANGED eof

\* fgets at the end of the input
ReadEOF_returns ==
  /\ pc = "read"
  /\ hpc = "idle"
  /\ ~sigPending
  /\ cmdID <= MaxRecorded
  /\ eof' = TRUE
  /\ pc' = "done"
  /\ out' = <<>>
  /\ UNCHANGED <<histVars, recorded, procVars, callIdx, cmdLine>>

\* fgets at the end of the input: it returns NULL, which cmdPrologue does not
\* look at, and stores nothing, so strtok and the loop work on what the buffer
\* held before.
ReadEOF ==
  /\ pc = "read"
  /\ hpc = "idle"
  /\ ~sigPending
  /\ cmdID <= MaxRecorded
  /\ eof' = TRUE
  /\ \E held \in (IF ~eof /\ cmdLine = <<>> THEN Indeterminate ELSE {cmdLine}) :
       cmdLine' = strtok(held)
  /\ readCommand(cmdLine')

\* foreground's wait returning without the child having terminated
FgWaitReturn_noWait ==
  /\ pc = "fgwait"
  /\ hpc = "idle"
  /\ children' = children (-) SetToBag(FgChildren \cap Zombies)
  /\ RecordAndPrompt(IF callIdx = -1 THEN cmdLine ELSE ringBuffer[callIdx].command)
  /\ callIdx' = 0 - 1
  /\ UNCHANGED <<cmdLine, eof, handlerInstalled, sigPending, hpc, forked>>

\* foreground's waitpid(pid, NULL, 0) returns: it collected the child, or the
\* child is no longer there (the handler collected it); programCall then
\* records the command and readCommand prompts.
FgWaitReturn ==
  /\ pc = "fgwait"
  /\ hpc = "idle"
  /\ FgChildren \subseteq Zombies
  /\ children' = children (-) SetToBag(FgChildren \cap Zombies)
  /\ RecordAndPrompt(IF callIdx = -1 THEN cmdLine ELSE ringBuffer[callIdx].command)
  /\ callIdx' = 0 - 1
  /\ UNCHANGED <<cmdLine, eof, handlerInstalled, sigPending, hpc, forked>>

\* A child terminates (after its program ran, or after execvp failed).
ChildTerminates ==
  /\ Alive
  /\ \E c \in Running :
       children' = (children (-) SetToBag({c})) (+) SetToBag({Terminated(c, execvp(c))})
  /\ sigPending' = (sigPending \/ handlerInstalled)
  /\ UNCHANGED <<histVars, cmdLine, eof, pc, callIdx, handlerInstalled, hpc, out, forked, recorded>>

\* a handler that records the line buffer
handler_records ==
  /\ Alive
  /\ sigPending
  /\ hpc = "idle"
  /\ sigPending' = FALSE
  /\ IF Zombies # {}
     THEN /\ \E c \in Zombies : children' = children (-) SetToBag({c})
          /\ hpc' = "idle"
     ELSE /\ hpc' = (IF children = EmptyBag THEN "idle" ELSE "blocked")
          /\ UNCHANGED children
  /\ SetHist(recHistory(H, cmdLine))
  /\ recorded' = Append(recorded, cmdLine)
  /\ UNCHANGED <<cmdLine, eof, pc, callIdx, handlerInstalled, out, forked>>
\* SIGCHLD is delivered: handler runs waitpid(-1, NULL, 0), which collects a
\* terminated child, fails at once when there is no child, and blocks otherwise.
handler ==
  /\ Alive
  /\ sigPending
  /\ hpc = "idle"
  /\ sigPending' = FALSE
  /\ IF Zombies # {}
     THEN /\ \E c \in Zombies : children' = children (-) SetToBag({c})
          /\ hpc' = "idle"
     ELSE /\ hpc' = (IF children = EmptyBag THEN "idle" ELSE "blocked")
          /\ UNCHANGED children
  /\ UNCHANGED <<histVars, cmdLine, eof, pc, callIdx, handlerInstalled, out, forked, recorded>>

\* The handler's blocked waitpid(-1, NULL, 0) returns with a terminated child.
handlerResume ==
  /\ Alive
  /\ hpc = "blocked"
  /\ \E c \in Zombies : children' = children (-) SetToBag({c})
  /\ hpc' = "idle"
  /\ UNCHANGED <<histVars, cmdLine, eof, pc, callIdx, handlerInstalled, sigPending, out, forked, recorded>>

Next ==
  \/ \E typed \in TypedLines : ReadLine(typed)
  \/ FgWaitReturn
  \/ ChildTerminates
  \/ handler
  \/ handlerResume

Spec == Init /\ [][Next]_vars

\* The shell on malformed recalls.
NextRecall ==
  \/ \E typed \in RecallLines : ReadLine(typed)
  \/ FgWaitReturn
  \/ ChildTerminates
  \/ handler
  \/ handlerResume

SpecRecall == Init /\ [][NextRecall]_vars

\* The shell on commands whose program execvp does not find.
NextExec ==
  \/ \E typed \in ExecLines : ReadLine(typed)
  \/ FgWaitReturn
  \/ ChildTerminates
  \/ handler
  \/ handlerResume

SpecExec == Init /\ [][NextExec]_vars

\* The shell on an input that ends: a read at the end of the input cannot be
\* told from the same line typed again but by stdin's indicator.
NextEOF ==
  \/ \E typed \in EOFLines : ReadLine(typed)
  \/ ReadEOF
  \/ FgWaitReturn
  \/ ChildTerminates
  \/ handler
  \/ handlerResume

SpecEOF == Init /\ [][NextEOF]_vars

----------------------------------------------------------------------------
(* Properties *)

N == Len(recorded)
MinOf(S) == CHOOSE x \in S : \A y \in S : x <= y
ListedIds(listing) == {listing[i].args[1] : i \in 1..Len(listing)}
EntryOut(id, text) == Printf("       %d %s\n", <<id, text>>)
ListingPrinted == Len(out) > 1 /\ out[1].fmt = "       %d %s\n"

\* C1: after N > ringSize recorded commands the listing is exactly the last
\* ringSize recorded commands, oldest first, with the identifiers
\* N-ringSize+1 .. N; and every insertion into a full ring removes exactly
\* the entry with the smallest identifier.
LastListing(h, rec) ==
  [i \in 1..ringSize |->
     EntryOut(Len(rec) - ringSize + i, rec[Len(rec) - ringSize + i])]

C1_ListingAfterWrap ==
  [][<<histVars, recorded>>' # <<histVars, recorded>> =>
       /\ N' > ringSize => Listing(H') = LastListing(H', recorded')
       /\ ringCount = ringSize =>
            \A before \in {ListedIds(Listing(H))}, after \in {ListedIds(Listing(H'))} :
              /\ Cardinality(before) = ringSize
              /\ after = (before \ {MinOf(before)}) \cup {cmdID}]_vars

C1_Witness == N > ringSize /\ ListingPrinted /\ Len(out) = ringSize + 1

\* C2: after N <= ringSize recorded commands the listing is exactly these N
\* commands in insertion order, with the identifiers 1..N and their texts.
C2_ListingBeforeWrap ==
  N <= ringSize => Listing(H) = [i \in 1..N |-> EntryOut(i, recorded[i])]

C2_Witness ==
  /\ N = ringSize
  /\ ListingPrinted
  /\ Len(out) = ringSize + 1
  /\ \E i \in 1..N : recorded[i] = bgText

\* C3: the count never exceeds ringSize: it is the number of recorded commands
\* until that reaches ringSize and stays ringSize from then on; every call of
\* recHistory stores its command as the newest entry under the next identifier.
C3_CountSaturates ==
  /\ ringCount <= ringSize
  /\ ringCount = (IF N < ringSize THEN N ELSE ringSize)
  /\ cmdID = N + 1
  /\ N > 0 => ringBuffer[ringStart] = [command |-> recorded[N], commandID |-> N]

C3_Witness == N > ringSize /\ ringCount = ringSize

\* C4: callHist's lookup finds an entry for an identifier exactly when it is
\* the identifier of one of the last ringSize recorded commands; the entry
\* found is the only one with that identifier and holds the text recorded
\* under it. Zero, negative, evicted and unassigned identifiers are not found.
C4_LookupExact ==
  /\ \A listing \in {Listing(H)} :
       \A i, j \in 1..Len(listing) : listing[i].args[1] = listing[j].args[1] => i = j
  /\ \A id \in (0 - 2)..(cmdID + 1) :
       \A s \in {FindSlot(H, id)} :
         IF id >= 1 /\ id <= N /\ id > N - ringSize
         THEN s # -1 /\ ringBuffer[s] = [command |-> recorded[id], commandID |-> id]
         ELSE s = -1

C4_Witness ==
  /\ N = ringSize + 2
  /\ FindSlot(H, 2) = -1
  /\ FindSlot(H, N) # -1
  /\ ringBuffer[FindSlot(H, N)].command = recorded[N]

\* Steps. In a state where fgets may return (ReadLine's guard) the only other
\* step that changes the state is the termination of a child.
IsChildTermination ==
  \E c \in Running :
    children' = (children (-) SetToBag({c})) (+) SetToBag({Terminated(c, execvp(c))})
ReadStep ==
  /\ pc = "read"
  /\ hpc = "idle"
  /\ ~sigPending
  /\ vars' # vars
  /\ ~IsChildTermination

\* how readCommand treats a line, from its parse
IsRecallOf(line, p) ==
  line # exitText /\ line # histText /\ p.argv # <<>> /\ Head(p.argv[1]) = "!"
IsCommandOf(line, p) ==
  line # exitText /\ p.argv # <<>> /\ (line = histText \/ Head(p.argv[1]) # "!")
RecallIdOf(p) == atoi(Tail(p.argv[1]))
IsRecall(line) == IsRecallOf(line, parseCommand(line))
RecallId(line) == RecallIdOf(parseCommand(line))
IsCommand(line) == IsCommandOf(line, parseCommand(line))

\* exactly one new entry, text under the next identifier, as the newest
Appended(text) ==
  /\ recorded' = Append(recorded, text)
  /\ cmdID' = cmdID + 1
  /\ ringBuffer'[ringStart'] = [command |-> text, commandID |-> cmdID]
  /\ \A i \in Slots \ {ringStart'} : ringBuffer'[i] = ringBuffer[i]

\* what dispatching text, parsed as p, does up to the next blocking call
DispatchEffect(text, p) ==
  IF text = histText
  THEN /\ Appended(text)
       /\ out' = Listing(H') \o <<PromptOut>>
       /\ pc' = "read"
       /\ UNCHANGED procVars
  ELSE IF p.bg = 0
  THEN \/ pc' = "forkfail" /\ UNCHANGED <<histVars, recorded, children>>
       \/ /\ pc' = "fgwait"
          /\ children' = children (+) SetToBag({Child(p.argv, text, 0)})
          /\ UNCHANGED <<histVars, recorded>>
  ELSE \/ pc' = "forkfail" /\ UNCHANGED <<histVars, recorded, children>>
       \/ /\ pc' = "read"
          /\ children' = children (+) SetToBag({Child(p.argv, text, 1)})
          /\ Appended(text)
          /\ out' = <<PromptOut>>

\* C5: "!N" with N held in the ring with text T does what the line T does
\* (the listing for "history", else the same argument vector in the same
\* mode), and appends exactly one entry with text T under the next identifier,
\* at once or, in the foreground, when the wait returns; wherever N is in the
\* ring.
C5_ReplayAsDirect ==
  [][/\ ReadStep =>
          \A p \in {parseCommand(cmdLine')} :
            /\ IsCommandOf(cmdLine', p) => DispatchEffect(cmdLine', p)
            /\ IsRecallOf(cmdLine', p) =>
                 \A s \in {FindSlot(H, RecallIdOf(p))} :
                   s # -1 => DispatchEffect(ringBuffer[s].command,
                                            parseCommand(ringBuffer[s].command))
     /\ (pc = "fgwait" /\ pc' = "read" /\ IsRecall(cmdLine)) =>
          \A s \in {FindSlot(H, RecallId(cmdLine))} :
            s # -1 /\ Appended(ringBuffer[s].command)]_vars

C5_Witness ==
  /\ N > ringSize
  /\ pc = "read"
  /\ IsRecall(cmdLine)
  /\ RecallId(cmdLine) = N - ringSize
  /\ recorded[N - ringSize] = bgText
  /\ recorded[N] = bgText
  /\ out = <<PromptOut>>
  /\ \E c \in Running : c.bg = 1

\* C6: "!N" with no entry N in the ring prints "<line>: event not found",
\* creates no process and leaves the ring, its indices, its count and the next
\* identifier as they were.
C6_MissChangesNothing ==
  [][ReadStep =>
       \A p \in {parseCommand(cmdLine')} :
         (IsRecallOf(cmdLine', p) /\ FindSlot(H, RecallIdOf(p)) = -1) =>
           /\ out' = <<Printf("%s: event not found\n", <<cmdLine'>>), PromptOut>>
           /\ pc' = "read"
           /\ UNCHANGED <<histVars, recorded, children, forked>>]_vars

C6_Witness ==
  /\ N > ringSize
  /\ IsRecall(cmdLine)
  /\ RecallId(cmdLine) = N - ringSize
  /\ out = <<Printf("%s: event not found\n", <<cmdLine>>), PromptOut>>

\* C7: the line "history" is recorded before the listing is printed, so the
\* listing ends with its own entry; a second "history" line right after it
\* gets the next identifier and lists the first one's entry just before its own.
C7_HistoryListsItself ==
  [][(ReadStep /\ cmdLine' = histText) =>
       /\ Appended(histText)
       /\ out' = Listing(H') \o <<PromptOut>>
       /\ out'[Len(out') - 1] = EntryOut(cmdID, histText)
       /\ (cmdLine = histText /\ ListingPrinted) =>
            /\ out[Len(out) - 1] = EntryOut(cmdID - 1, histText)
            /\ out'[Len(out') - 2] = EntryOut(cmdID - 1, histText)]_vars

C7_Witness ==
  /\ cmdLine = histText
  /\ ListingPrinted
  /\ Len(out) = ringSize + 1
  /\ N > ringSize
  /\ out[Len(out) - 1] = EntryOut(N, histText)
  /\ out[Len(out) - 2] = EntryOut(N - 1, histText)

\* C8: the handler never waits for a child that is still running.
C8_HandlerNeverBlocks == hpc # "blocked"

\* C9: when the handler returns, no terminated background child is left
\* unreaped.
C9_HandlerReapsAll ==
  [][((sigPending /\ hpc = "idle" /\ ~sigPending') \/ hpc = "blocked") /\ hpc' = "idle"
       => \A c \in Zombies' : c.bg # 1]_vars

\* C10: while the shell waits for a foreground child no prompt is printed; the
\* wait ends only when that child has terminated, and the command is recorded
\* before the prompt, whoever collected the child.
C10_ForegroundBarrier ==
  [][/\ pc' = "fgwait" => out' = <<>>
     /\ pc' # "fgwait" => \A c \in FgChildren' : c.st # "running"
     /\ (pc = "fgwait" /\ pc' # "fgwait") =>
          /\ pc' = "read"
          /\ FgChildren \subseteq Zombies
          /\ FgChildren' = {}
          /\ cmdID' = cmdID + 1
          /\ Len(recorded') = N + 1
          /\ ringBuffer'[ringStart'] = [command |-> recorded'[N + 1], commandID |-> cmdID]
          /\ IsCommand(cmdLine) => recorded'[N + 1] = cmdLine
          /\ out' = <<PromptOut>>]_vars

C10_Witness ==
  /\ pc = "fgwait"
  /\ FgChildren = {}
  /\ hpc = "idle"
  /\ \E c \in Running : c.bg = 1

\* C11: a background command is recorded and the next prompt printed in the
\* step that creates its child, which is then still running; entries are
\* appended in the order of dispatch under consecutive identifiers, the
\* termination of a child changes none of it, and a "history" line right
\* after a background command lists both, in this order.
C11_BackgroundNoWait ==
  [][/\ ReadStep =>
          \A p \in {parseCommand(cmdLine')} :
            (IsCommandOf(cmdLine', p) /\ cmdLine' # histText /\ p.bg = 1 /\ pc' # "forkfail") =>
              /\ pc' = "read"
              /\ Appended(cmdLine')
              /\ out' = <<PromptOut>>
              /\ children' = children (+) SetToBag({Child(p.argv, cmdLine', 1)})
              /\ \E c \in Running' : c.bg = 1 /\ c.cmdLine = cmdLine'
     /\ recorded' # recorded =>
          /\ N' = N + 1
          /\ SubSeq(recorded', 1, N) = recorded
          /\ ringBuffer'[ringStart'].commandID = N + 1
     /\ IsChildTermination => UNCHANGED <<histVars, recorded, pc, out>>
     /\ (ReadStep /\ cmdLine' = histText /\ N > 0 /\ parseCommand(recorded[N]).bg = 1) =>
          /\ out'[Len(out') - 2] = EntryOut(cmdID - 1, recorded[N])
          /\ out'[Len(out') - 1] = EntryOut(cmdID, histText)]_vars

C11_Witness ==
  /\ pc = "read"
  /\ N >= 2
  /\ recorded[N - 1] = bgText
  /\ recorded[N] = histText
  /\ ListingPrinted
  /\ Len(out) >= 3
  /\ out[Len(out) - 2] = EntryOut(N - 1, bgText)
  /\ out[Len(out) - 1] = EntryOut(N, histText)
  /\ \E c \in Running : c.bg = 1 /\ c.cmdLine = bgText

\* an optionally signed run of digits, and nothing else
IsIntLiteral(s) ==
  LET u == IF s # <<>> /\ Head(s) \in {"-", "+"} THEN Tail(s) ELSE s
  IN u # <<>> /\ \A i \in 1..Len(u) : IsDigit(u[i])
\* the first token starts with "!" and what follows is no integer literal
IsMalformedOf(line, p) == IsRecallOf(line, p) /\ ~IsIntLiteral(Tail(p.argv[1]))
IsMalformed(line) == IsMalformedOf(line, parseCommand(line))
MissEffect(line) ==
  /\ out' = <<Printf("%s: event not found\n", <<line>>), PromptOut>>
  /\ pc' = "read"
  /\ UNCHANGED <<histVars, recorded, children, forked>>

\* C12 as stated: a line whose first token starts with "!" without being "!"
\* and an integer literal prints nothing, runs nothing and records nothing.
C12_MalformedSilent ==
  [][ReadStep =>
       \A p \in {parseCommand(cmdLine')} :
         IsMalformedOf(cmdLine', p) =>
           /\ out' = <<PromptOut>>
           /\ pc' = "read"
           /\ UNCHANGED <<histVars, recorded, children, forked>>]_vars

\* C12 amended: such a line is a recall of the number atoi reads at the start
\* of what follows "!". Without a digit there ("!abc", "!") that is 0, which
\* no entry has: "<line>: event not found" is printed, nothing is run or
\* recorded, and the loop goes on. With digits there ("!3abc") the line does
\* what "!3" does: the entry with that number is replayed, or the miss is
\* reported when the ring does not hold it.
C12_MalformedIsRecall ==
  [][ReadStep =>
       \A p \in {parseCommand(cmdLine')} :
         IsMalformedOf(cmdLine', p) =>
           IF ~IsDigit(Head(Tail(p.argv[1]) \o <<"x">>))
           THEN MissEffect(cmdLine')
           ELSE IF ringCount = 0
           THEN cmdLine' = <<"!", "0">> \o Tail(badRecallText) /\ MissEffect(cmdLine')
           ELSE /\ cmdLine' = <<"!">> \o Itoa(ringBuffer[ringEnd].commandID) \o Tail(badRecallText)
                /\ DispatchEffect(ringBuffer[ringEnd].command,
                                  parseCommand(ringBuffer[ringEnd].command))]_vars

C12_Witness ==
  /\ pc = "read"
  /\ N > ringSize
  /\ IsMalformed(cmdLine)
  /\ cmdLine = <<"!">> \o Itoa(N - ringSize) \o Tail(badRecallText)
  /\ recorded[N] = bgText
  /\ recorded[N - ringSize] = bgText
  /\ \E c \in Running : c.bg = 1

\* C13: the line "exit", and only a line that is exactly "exit", ends the loop
\* without being dispatched: the ring, its indices, its count, the next
\* identifier and the children are what they were before the line was read,
\* nothing happens afterwards, and no entry with the text "exit" is ever in
\* the ring.
C13_ExitNotRecorded ==
  [][/\ (ReadStep /\ cmdLine' = exitText) =>
          /\ pc' = "done"
          /\ out' = <<>>
          /\ UNCHANGED <<histVars, recorded, children, forked>>
     /\ (ReadStep /\ cmdLine' # exitText) => pc' # "done"
     /\ pc = "done" => vars' = vars
     /\ \A s \in Slots : ringBuffer'[s].command # exitText
     /\ recorded' # recorded => recorded'[N'] # exitText]_vars

C13_Witness ==
  /\ pc = "done"
  /\ cmdLine = exitText
  /\ N > ringSize
  /\ recorded[N] = nfText
  /\ ringBuffer[ringStart] = [command |-> nfText, commandID |-> N]

\* C14: a child whose program execvp does not find prints "<line>: command
\* not found", with the line it was dispatched for, and terminates; the shell
\* prints no such message itself and a child's termination changes nothing in
\* it; the command is recorded once all the same: in the step that creates a
\* background child, and when the wait returns for a foreground child.
C14_NotFoundRecorded ==
  [][/\ \A z \in Zombies' :
          z.argv[1] \notin Programs =>
            z.out = <<Printf("%s: command not found\n", <<z.cmdLine>>)>>
     /\ \A i \in 1..Len(out') : out'[i].fmt # "%s: command not found\n"
     /\ IsChildTermination => UNCHANGED <<histVars, recorded, pc, out, cmdLine, callIdx, forked>>
     /\ (ReadStep /\ forked' = forked + 1) =>
          \A p \in {parseCommand(cmdLine')} :
            \A text \in {IF IsRecallOf(cmdLine', p)
                         THEN ringBuffer[FindSlot(H, RecallIdOf(p))].command
                         ELSE cmdLine'} :
              \E c \in BagToSet(children') :
                /\ children' = children (+) SetToBag({c})
                /\ c.st = "running"
                /\ c.cmdLine = text
                /\ c.bg = 1 => pc' = "read" /\ Appended(text) /\ out' = <<PromptOut>>
                /\ c.bg = 0 => pc' = "fgwait" /\ UNCHANGED <<histVars, recorded>>
     /\ (pc = "fgwait" /\ pc' # "fgwait") =>
          \A z \in FgChildren :
            z.st = "zombie" /\ pc' = "read" /\ Appended(z.cmdLine) /\ out' = <<PromptOut>>
     /\ N' <= N + 1]_vars

C14_Witness ==
  /\ pc = "read"
  /\ N >= 2
  /\ recorded[N - 1] = nfText
  /\ recorded[N] = nfBgText
  /\ out = <<PromptOut>>
  /\ \E z \in Zombies :
       z.bg = 1 /\ z.out = <<Printf("%s: command not found\n", <<nfBgText>>)>>

\* a line that makes the shell fork: a command other than "history", or the
\* recall of one
ForksOf(line, p) ==
  \/ IsCommandOf(line, p) /\ line # histText
  \/ /\ IsRecallOf(line, p)
     /\ \A s \in {FindSlot(H, RecallIdOf(p))} : s # -1 /\ ringBuffer[s].command # histText

\* C15: when fork fails, in the foreground or in the background, for a typed
\* command or for a replay, "error in forking" is printed and the shell exits:
\* nothing is recorded, no child is created, no prompt is printed and nothing
\* happens afterwards. A line that makes the shell fork either creates a child
\* or ends the shell in this way.
C15_ForkFailureFatal ==
  [][/\ (pc # "forkfail" /\ pc' = "forkfail") =>
          /\ ReadStep
          /\ ForksOf(cmdLine', parseCommand(cmdLine'))
          /\ out' = <<Printf("error in forking\n", <<>>)>>
          /\ UNCHANGED <<histVars, recorded, children, forked>>
     /\ (ReadStep /\ ForksOf(cmdLine', parseCommand(cmdLine'))) =>
          \/ pc' = "forkfail"
          \/ forked' = forked + 1 /\ pc' \in {"read", "fgwait"}
     /\ pc = "forkfail" => vars' = vars]_vars

C15_Witness ==
  /\ pc = "forkfail"
  /\ IsRecall(cmdLine)
  /\ N > ringSize
  /\ FindSlot(H, RecallId(cmdLine)) # -1
  /\ ringBuffer[FindSlot(H, RecallId(cmdLine))].command = bgText
  /\ out = <<Printf("error in forking\n", <<>>)>>
  /\ forked < MaxFork

\* a line that records nothing: blank or white space only, a recall that
\* finds no entry, "exit"
RecordsNothing(line, p) ==
  \/ line = exitText
  \/ line # histText /\ p.argv = <<>>
  \/ IsRecallOf(line, p) /\ FindSlot(H, RecallIdOf(p)) = -1

\* C16: the first identifier is 1; every step that records a command, typed,
\* "history" or replayed, gives it the next identifier and raises that by
\* one; a line that records nothing leaves it; every identifier in the ring
\* is below the next one, and from the oldest entry to the newest the
\* identifiers increase.
C16_IdentifiersIncrease ==
  [][/\ N = 0 => cmdID = 1
     /\ cmdID' - cmdID = N' - N
     /\ recorded' # recorded =>
          /\ cmdID' = cmdID + 1
          /\ ringBuffer'[ringStart'].commandID = cmdID
          /\ \A s \in Slots : ringBuffer[s].commandID < cmdID
          /\ \A listing \in {Listing(H')} :
               \A i \in 1..(Len(listing) - 1) : listing[i].args[1] < listing[i + 1].args[1]
     /\ recorded' = recorded => UNCHANGED histVars
     /\ ReadStep =>
          \A p \in {parseCommand(cmdLine')} :
            /\ RecordsNothing(cmdLine', p) => UNCHANGED <<histVars, recorded>>
            /\ cmdLine' = histText => cmdID' = cmdID + 1
            /\ (IsCommandOf(cmdLine', p) /\ pc' = "read") => cmdID' = cmdID + 1
     /\ (pc = "fgwait" /\ pc' = "read") => cmdID' = cmdID + 1]_vars

C16_Witness ==
  /\ N > ringSize
  /\ pc = "read"
  /\ cmdLine = spaceText
  /\ cmdID = N + 1
  /\ recorded[N] = histText
  /\ recorded[N - 1] = fgText
  /\ recorded[N - 2] = fgText

\* a step of the handler: it starts (the pending SIGCHLD is taken) or its
\* blocked waitpid returns
HandlerStep ==
  \/ sigPending /\ ~sigPending'
  \/ hpc = "blocked" /\ hpc' = "idle"

\* C17: a step of the handler leaves the ring, its indices, its count, the
\* next identifier, the line buffer and the shell's position as they are,
\* wherever the shell is; the ring changes only in a step of the shell (a line
\* read, or the foreground wait returning), and then by one call of
\* recHistory.
C17_HandlerLeavesHistory ==
  [][/\ HandlerStep => UNCHANGED <<histVars, recorded, cmdLine, pc, callIdx, out>>
     /\ histVars' # histVars =>
          /\ ~HandlerStep
          /\ ReadStep \/ (pc = "fgwait" /\ hpc = "idle")
          /\ N' = N + 1
          /\ H' = recHistory(H, recorded'[N'])]_vars

\* the handler has run inside programCall, between foreground's fork and
\* recHistory, and collected the foreground child
C17_Witness ==
  /\ pc = "fgwait"
  /\ hpc = "idle"
  /\ ~sigPending
  /\ handlerInstalled
  /\ FgChildren = {}
  /\ N > ringSize
  /\ ringCount = ringSize

\* C18: no text ever recorded, and so no entry of the ring, has a first token
\* that starts with "!": what a replay dispatches is never itself a recall.
C18_NoRecallRecorded ==
  \A t \in {ringBuffer[s].command : s \in Slots} \cup {recorded[i] : i \in 1..N} :
    ~IsRecall(t)

C18_Witness ==
  /\ pc = "read"
  /\ N > ringSize
  /\ cmdLine = <<"!">> \o Itoa(N - ringSize) \o Tail(badRecallText)
  /\ recorded[N] = histText
  /\ ListingPrinted
  /\ \E i \in 1..N : recorded[i] = bgText

\* C19: the loop ends only in the step that reads the line "exit". A read at
\* the end of the input leaves the line buffer as it was and never ends the
\* loop: the line in the buffer is dispatched once more, as a typed line is
\* ("history" and a background command are recorded again in that step, a
\* foreground command when its wait returns, a recall is looked up again, a
\* line without a token does nothing), and the indicator stays set.
C19_EndOfInputRedispatches ==
  [][/\ pc' = "done" => cmdLine' = exitText /\ ~eof' /\ ReadStep
     /\ eof => eof'
     /\ (ReadStep /\ eof') =>
          /\ (cmdLine # <<>> \/ eof) => cmdLine' = cmdLine
          /\ pc' # "done"
          /\ \A p \in {parseCommand(cmdLine')} :
               /\ IsCommandOf(cmdLine', p) => DispatchEffect(cmdLine', p)
               /\ IsRecallOf(cmdLine', p) =>
                    \A s \in {FindSlot(H, RecallIdOf(p))} :
                      IF s = -1 THEN MissEffect(cmdLine')
                      ELSE DispatchEffect(ringBuffer[s].command,
                                          parseCommand(ringBuffer[s].command))
               /\ (cmdLine' # histText /\ p.argv = <<>>) =>
                    out' = <<PromptOut>> /\ pc' = "read" /\ UNCHANGED <<histVars, recorded, children>>
     /\ (eof /\ pc = "fgwait" /\ pc' = "read" /\ IsCommand(cmdLine)) => Appended(cmdLine)]_vars

C19_Witness ==
  /\ eof
  /\ pc = "read"
  /\ N > ringSize
  /\ cmdLine = fgText
  /\ recorded[N] = fgText
  /\ recorded[N - 1] = fgText
  /\ recorded[N - 2] = histText

\* C20: ringEnd is a slot and ringStart a slot or -1; until the ring is full
\* the oldest entry is in slot 0 and the newest in slot ringCount - 1; once it
\* is full the oldest entry is in the slot after the newest, cyclically.
C20_IndicesConsistent ==
  /\ ringEnd \in 0..(ringSize - 1)
  /\ ringStart \in (0 - 1)..(ringSize - 1)
  /\ ringCount \in 0..ringSize
  /\ ringCount < ringSize => ringEnd = 0 /\ ringStart = ringCount - 1
  /\ ringCount = ringSize => ringEnd = (ringStart + 1) % ringSize

C20_Witness ==
  /\ ringCount = ringSize
  /\ ringStart = 1
  /\ ringEnd = 2
  /\ N = ringSize + 2

====
